---- MODULE Spec2Model ----
(***************************************************************************)
(* Model of budget_tracker/budgets: the BudgetItem and MonthlyInstance     *)
(* tables, the many-to-many relation MonthlyInstance.budget_items, and the *)
(* operations of models.py and admin.py on them.                           *)
(*                                                                         *)
(* Representation                                                          *)
(*   - a date is a positive integer (only the order of dates is used);     *)
(*   - an optional date (end_date, null=True) is a set: {} is NULL, {d} is *)
(*     the date d;                                                         *)
(*   - a stored amount (decimal_places=2) is an integer number of cents;   *)
(*   - a table is a sequence of rows, the primary key is the index (rows   *)
(*     are never deleted by the code);                                     *)
(*   - budget_items of one instance is the bag of BudgetItem keys held by  *)
(*     the rows of the join table for that instance, so that a duplicate   *)
(*     row is representable;                                               *)
(*   - the Python object of a persisted MonthlyInstance is identified with *)
(*     its row: the code saves after every assignment it makes.            *)
(*   notes, name, owner and the timestamps take no part in any operation   *)
(*   and are left out.                                                     *)
(***************************************************************************)
EXTENDS Integers, Sequences, FiniteSets, Bags, TLC

\* Bounds of the model.
MaxItems == 2
MaxInstances == 2
MaxDate == 2

Dates == 1..MaxDate
OptDates == {{}} \cup {{d} : d \in Dates}

\* The costs of the fixture of MonthlyInstanceAutoPopulateTest.setUp, in cents:
\* the k-th BudgetItem created is given the k-th of them (or 100 * k beyond).
FixtureCosts == <<120000, 15000, 5000, 50000, 30000>>
CostsFor(pk) == {IF pk \in DOMAIN FixtureCosts THEN FixtureCosts[pk] ELSE 100 * pk}

\* The schedules a caller gives a BudgetItem: every (startdate, end_date) for a
\* repeating item; a non-repeating item is given the schedule that is active in
\* every month (its dates are read by no operation).
ItemInputs ==
    {f \in [repeats : BOOLEAN, startdate : Dates, end_date : OptDates] :
        f.repeats \/ (f.startdate = 1 /\ f.end_date = {})}

VARIABLES items, instances, last, cleaning

vars == <<items, instances, last, cleaning>>

ItemPks == DOMAIN items
InstancePks == DOMAIN instances

----------------------------------------------------------------------------
\* The many-to-many manager (budget_items.add / remove / set).

\* rows of the join table of one instance -> set of BudgetItem keys.
RelatedPks(rows) == BagToSet(rows)

RelatedAdd(rows, objs) == rows (+) SetToBag(objs \ RelatedPks(rows))

RelatedRemove(rows, objs) ==
    [pk \in (DOMAIN rows) \ objs |-> rows[pk]]

\* Faulty variant of RelatedSet: a row is inserted for every object, present
\* or not.
RelatedSetInserting(rows, objs) ==
    RelatedRemove(rows, RelatedPks(rows) \ objs) (+) SetToBag(objs)

\* Faulty variant of RelatedSet: it only adds, it removes nothing.
RelatedSetAdditive(rows, objs) == RelatedAdd(rows, objs)

RelatedSet(rows, objs) ==
    LET old == RelatedPks(rows)
    IN  RelatedAdd(RelatedRemove(rows, old \ objs), objs \ old)

----------------------------------------------------------------------------
\* models.py

RECURSIVE SumOver(_, _, _)
SumOver(its, rows, pks) ==
    IF pks = {} THEN 0
    ELSE LET pk == CHOOSE x \in pks : TRUE
         IN  CopiesIn(pk, rows) * its[pk].cost + SumOver(its, rows, pks \ {pk})

\* sum((item.cost for item in self.budget_items.all()), Decimal('0.00'))
SumCost(its, rows) == SumOver(its, rows, RelatedPks(rows))

\* Faulty variant of calculate_total: the sum is never assigned and saved.
calculate_total_unsaved(its, inst) == inst

\* calculate_total: the instance after total_amount is assigned and saved.
calculate_total(its, inst) ==
    [inst EXCEPT !.total_amount = SumCost(its, inst.budget_items)]

\* Faulty variant of ActiveRepeating: the filter on end_date is left out.
ActiveRepeatingNoEnd(its, M) ==
    {pk \in DOMAIN its : its[pk].repeats /\ its[pk].startdate <= M}

\* Faulty variant of ActiveRepeating: startdate__lt in place of startdate__lte.
ActiveRepeatingStrictStart(its, M) ==
    {pk \in DOMAIN its :
        /\ its[pk].repeats
        /\ its[pk].startdate < M
        /\ \/ its[pk].end_date = {}
           \/ \E d \in its[pk].end_date : d >= M}

\* The queryset of auto_populate_repeating_items for the month M.
ActiveRepeating(its, M) ==
    {pk \in DOMAIN its :
        /\ its[pk].repeats
        /\ its[pk].startdate <= M
        /\ \/ its[pk].end_date = {}
           \/ \E d \in its[pk].end_date : d >= M}

\* Faulty variant of auto_populate_repeating_items: the total is not
\* recalculated after the assignment.
auto_populate_without_total(its, inst) ==
    [inst EXCEPT !.budget_items = RelatedSet(@, ActiveRepeating(its, inst.month))]

auto_populate_repeating_items(its, inst) ==
    calculate_total(its,
        [inst EXCEPT !.budget_items = RelatedSet(@, ActiveRepeating(its, inst.month))])

\* Faulty variant of UniqueViolation: no unique constraint on month.
UniqueViolationNever(insts, obj, M) == FALSE

\* unique_together = ['month']: the row obj (0: a row not yet inserted) with
\* month M would collide with another row.
UniqueViolation(insts, obj, M) ==
    \E pk \in DOMAIN insts : pk # obj /\ insts[pk].month = M

NewRow(M) == [month |-> M, total_amount |-> 0, budget_items |-> EmptyBag]

\* super().save(): INSERT when the object has no pk (obj = 0), UPDATE otherwise.
SuperSave(insts, obj, M) ==
    IF obj = 0 THEN Append(insts, NewRow(M))
    ELSE [insts EXCEPT ![obj].month = M]

SavedPk(insts, obj) == IF obj = 0 THEN Len(insts) + 1 ELSE obj

\* Faulty variant of save: is_new is not consulted, every save populates.
save_always_populating(its, insts, obj, M) ==
    LET stored == SuperSave(insts, obj, M)
        pk == SavedPk(insts, obj)
    IN  [stored EXCEPT ![pk] = auto_populate_repeating_items(its, @)]

\* MonthlyInstance.save of the object obj whose month field holds M.
save(its, insts, obj, M) ==
    LET is_new == obj = 0
        stored == SuperSave(insts, obj, M)
        pk == SavedPk(insts, obj)
    IN  IF is_new
        THEN [stored EXCEPT ![pk] = auto_populate_repeating_items(its, @)]
        ELSE stored

----------------------------------------------------------------------------
\* The last call: its name, the instance key it was made on (0: none), the
\* exception it raised ("" when it returned), ret: the value it returned
\* (calculate_total) or was given (the month of create), and for
\* calculate_total and auto_populate_repeating_items the instance's join rows
\* and total_amount when the call was made. For a call on the admin form,
\* fields holds the two item fields of the form: their initial values after
\* __init__, their cleaned_data in save.
NoFields == [repeating_items |-> {}, non_repeating_items |-> {}]

Last(op, pk, err, ret, before, old) ==
    [op |-> op, pk |-> pk, err |-> err, ret |-> ret, before |-> before, old |-> old,
     fields |-> NoFields]

LastForm(op, pk, fields) ==
    [Last(op, pk, "", 0, EmptyBag, 0) EXCEPT !.fields = fields]

NotCleaning == [value |-> [neg |-> FALSE, coeff |-> 0, exp |-> 0], outcome |-> "none"]

Init ==
    /\ items = <<>>
    /\ instances = <<>>
    /\ last = Last("init", 0, "", 0, EmptyBag, 0)
    /\ cleaning = NotCleaning

\* BudgetItem.objects.create(cost=c, repeats=r, startdate=s, end_date=e)
CreateBudgetItem(c, r, s, e) ==
    /\ Len(items) < MaxItems
    /\ items' = Append(items, [cost |-> c, repeats |-> r, startdate |-> s, end_date |-> e])
    /\ last' = Last("create_item", 0, "", 0, EmptyBag, 0)
    /\ UNCHANGED <<instances, cleaning>>

\* Faulty variant of Create: the uniqueness of month is checked after the row
\* was inserted and populated, and the row is left behind.
CreateCheckingAfterInsert(M) ==
    /\ Len(instances) < MaxInstances
    /\ instances' = save(items, instances, 0, M)
    /\ IF UniqueViolation(instances, 0, M)
       THEN last' = Last("create", 0, "IntegrityError", M, EmptyBag, 0)
       ELSE last' = Last("create", Len(instances) + 1, "", M, EmptyBag, 0)
    /\ UNCHANGED <<items, cleaning>>

\* MonthlyInstance.objects.create(month=M): save() of an object without pk.
Create(M) ==
    /\ IF UniqueViolation(instances, 0, M)
       THEN /\ last' = Last("create", 0, "IntegrityError", M, EmptyBag, 0)
            /\ UNCHANGED instances
       ELSE /\ Len(instances) < MaxInstances
            /\ instances' = save(items, instances, 0, M)
            /\ last' = Last("create", Len(instances) + 1, "", M, EmptyBag, 0)
    /\ UNCHANGED <<items, cleaning>>

\* instance.month = M; instance.save() on a persisted instance. When the
\* UPDATE is rejected the row keeps its month.
Resave(pk, M) ==
    /\ pk \in InstancePks
    /\ IF UniqueViolation(instances, pk, M)
       THEN /\ last' = Last("save", pk, "IntegrityError", 0, EmptyBag, 0)
            /\ UNCHANGED instances
       ELSE /\ instances' = save(items, instances, pk, M)
            /\ last' = Last("save", pk, "", 0, EmptyBag, 0)
    /\ UNCHANGED <<items, cleaning>>

\* instance.calculate_total()
CalculateTotal(pk) ==
    /\ pk \in InstancePks
    /\ instances' = [instances EXCEPT ![pk] = calculate_total(items, @)]
    /\ last' = Last("calculate_total", pk, "", SumCost(items, instances[pk].budget_items),
                    instances[pk].budget_items, instances[pk].total_amount)
    /\ UNCHANGED <<items, cleaning>>

\* instance.auto_populate_repeating_items()
AutoPopulate(pk) ==
    /\ pk \in InstancePks
    /\ instances' = [instances EXCEPT ![pk] = auto_populate_repeating_items(items, @)]
    /\ last' = Last("auto_populate", pk, "", 0, instances[pk].budget_items,
                    instances[pk].total_amount)
    /\ UNCHANGED <<items, cleaning>>

\* Faulty variant of add: the item replaces the rows instead of joining them.
add_replacing(its, inst, i) == [inst EXCEPT !.budget_items = RelatedSet(@, {i})]

\* Faulty variant of add: adding recalculates the total.
add_recalculating(its, inst, i) ==
    calculate_total(its, [inst EXCEPT !.budget_items = RelatedAdd(@, {i})])

\* instance.budget_items.add(item)
add(its, inst, i) == [inst EXCEPT !.budget_items = RelatedAdd(@, {i})]

AddItem(pk, i) ==
    /\ pk \in InstancePks
    /\ i \in ItemPks
    /\ instances' = [instances EXCEPT ![pk] = add(items, @, i)]
    /\ last' = Last("add", pk, "", 0, EmptyBag, 0)
    /\ UNCHANGED <<items, cleaning>>

\* instance.budget_items.remove(item)
remove(its, inst, i) == [inst EXCEPT !.budget_items = RelatedRemove(@, {i})]

RemoveItem(pk, i) ==
    /\ pk \in InstancePks
    /\ i \in ItemPks
    /\ instances' = [instances EXCEPT ![pk] = remove(items, @, i)]
    /\ last' = Last("remove", pk, "", 0, EmptyBag, 0)
    /\ UNCHANGED <<items, cleaning>>

----------------------------------------------------------------------------
\* admin.py

\* Faulty variant of form_init: the repeating selection is not filtered.
form_init_unfiltered(its, insts, obj) ==
    IF obj = 0 THEN NoFields
    ELSE LET current_items == RelatedPks(insts[obj].budget_items)
         IN  [repeating_items |-> current_items,
              non_repeating_items |-> {pk \in current_items : ~its[pk].repeats}]

\* MonthlyInstanceAdminForm.__init__ on the object obj: the initial values of
\* the two item fields (set only when the instance has a pk).
form_init(its, insts, obj) ==
    IF obj = 0 THEN NoFields
    ELSE LET current_items == RelatedPks(insts[obj].budget_items)
             repeating_current == {pk \in current_items : its[pk].repeats}
             non_repeating_current == {pk \in current_items : ~its[pk].repeats}
         IN  [repeating_items |-> repeating_current,
              non_repeating_items |-> non_repeating_current]

\* Faulty variant of form_save: the selection is added to the items held.
form_save_adding(its, insts, obj, M, selected_repeating, selected_non_repeating) ==
    LET saved == save(its, insts, obj, M)
        pk == SavedPk(insts, obj)
        all_selected_items == selected_repeating \cup selected_non_repeating
    IN  [saved EXCEPT ![pk] = calculate_total(its,
            [@ EXCEPT !.budget_items = RelatedAdd(@, all_selected_items)])]

\* MonthlyInstanceAdminForm.save(commit=True) of a valid form bound to the
\* object obj, with month M and the two selections.
form_save(its, insts, obj, M, selected_repeating, selected_non_repeating) ==
    LET saved == save(its, insts, obj, M)
        pk == SavedPk(insts, obj)
        all_selected_items == selected_repeating \cup selected_non_repeating
    IN  [saved EXCEPT ![pk] = calculate_total(its,
            [@ EXCEPT !.budget_items = RelatedSet(@, all_selected_items)])]

\* MonthlyInstanceAdmin.save_model
save_model(its, insts, obj, M) ==
    LET saved == save(its, insts, obj, M)
        pk == SavedPk(insts, obj)
    IN  [saved EXCEPT ![pk] = calculate_total(its, @)]

\* The querysets of the two form fields.
RepeatingChoices(its) == {pk \in DOMAIN its : its[pk].repeats}
NonRepeatingChoices(its) == {pk \in DOMAIN its : ~its[pk].repeats}

\* The form is valid only when its month collides with no other row
\* (validate_unique); an invalid form is not saved.
FormSave(obj, M, sel) ==
    /\ obj \in InstancePks \/ (obj = 0 /\ Len(instances) < MaxInstances)
    /\ ~UniqueViolation(instances, obj, M)
    /\ instances' = form_save(items, instances, obj, M,
                              sel \cap RepeatingChoices(items),
                              sel \cap NonRepeatingChoices(items))
    /\ last' = LastForm("form_save", SavedPk(instances, obj),
                         [repeating_items |-> sel \cap RepeatingChoices(items),
                          non_repeating_items |-> sel \cap NonRepeatingChoices(items)])
    /\ UNCHANGED <<items, cleaning>>

\* The form is opened on the object obj (0: the add view, an object without pk).
OpenForm(obj) ==
    /\ obj \in InstancePks \/ obj = 0
    /\ last' = LastForm("form_init", obj, form_init(items, instances, obj))
    /\ UNCHANGED <<items, instances, cleaning>>

SaveModel(obj, M) ==
    /\ obj \in InstancePks \/ (obj = 0 /\ Len(instances) < MaxInstances)
    /\ ~UniqueViolation(instances, obj, M)
    /\ instances' = save_model(items, instances, obj, M)
    /\ last' = Last("save_model", SavedPk(instances, obj), "", 0, EmptyBag, 0)
    /\ UNCHANGED <<items, cleaning>>

----------------------------------------------------------------------------
\* BudgetItem.cost: DecimalField(max_digits=10, decimal_places=2,
\* validators=[MinValueValidator(Decimal('0.01'))]) under full_clean.
\* A Decimal is what Decimal.as_tuple() gives: the sign, the coefficient (its
\* digits read as a number) and the exponent; its value is
\* (-1)^neg * coeff * 10^exp.

max_digits == 10
decimal_places == 2
\* Faulty variant of MinCost: MinValueValidator(Decimal('0.00')).
MinCostZero == [neg |-> FALSE, coeff |-> 0, exp |-> -2]

MinCost == [neg |-> FALSE, coeff |-> 1, exp |-> -2]

RECURSIVE NumDigits(_)
NumDigits(n) == IF n < 10 THEN 1 ELSE 1 + NumDigits(n \div 10)

\* |a| < |b| for non-zero Decimals: by the position of the leading digit, then
\* by the coefficients aligned to the same number of digits.
MagLess(a, b) ==
    LET da == NumDigits(a.coeff)
        db == NumDigits(b.coeff)
        n == IF da > db THEN da ELSE db
    IN  IF da + a.exp # db + b.exp
        THEN da + a.exp < db + b.exp
        ELSE a.coeff * 10^(n - da) < b.coeff * 10^(n - db)

\* a < b
DecLess(a, b) ==
    IF a.coeff = 0 /\ b.coeff = 0 THEN FALSE
    ELSE IF a.coeff = 0 THEN ~b.neg
    ELSE IF b.coeff = 0 THEN a.neg
    ELSE IF a.neg # b.neg THEN a.neg
    ELSE IF a.neg THEN MagLess(b, a)
    ELSE MagLess(a, b)

\* MinValueValidator(limit)(value) raises when value < limit.
MinValueValidator(limit, value) == ~DecLess(value, limit)

\* DecimalValidator(max_digits, decimal_places)(value) does not raise.
DecimalValidator(value) ==
    LET len == NumDigits(value.coeff)
        digits == IF value.exp >= 0
                  THEN (IF value.coeff # 0 THEN len + value.exp ELSE len)
                  ELSE (IF -value.exp > len THEN -value.exp ELSE len)
        decimals == IF value.exp >= 0 THEN 0 ELSE -value.exp
        whole_digits == digits - decimals
    IN  /\ digits <= max_digits
        /\ decimals <= decimal_places
        /\ whole_digits <= max_digits - decimal_places

\* The outcome of BudgetItem(cost=value, ...).full_clean(), the other fields
\* being valid.
full_clean(value) ==
    IF DecimalValidator(value) /\ MinValueValidator(MinCost, value)
    THEN "valid" ELSE "ValidationError"

\* The costs full_clean is tried on.
CleanCoeffs == {0, 1, 2, 5, 10, 15, 99, 100, 12345, 99999999, 100000000, 999999999}
CleanExps == -4..9
CleanInputs == [neg : BOOLEAN, coeff : CleanCoeffs, exp : CleanExps]

InitClean ==
    /\ items = <<>>
    /\ instances = <<>>
    /\ last = Last("init", 0, "", 0, EmptyBag, 0)
    /\ cleaning \in [value : CleanInputs, outcome : {"pending"}]

FullClean ==
    /\ cleaning.outcome = "pending"
    /\ cleaning' = [cleaning EXCEPT !.outcome = full_clean(cleaning.value)]
    /\ last' = Last("full_clean", 0, IF cleaning'.outcome = "valid" THEN "" ELSE "ValidationError",
                    0, EmptyBag, 0)
    /\ UNCHANGED <<items, instances>>

NextClean == FullClean

SpecClean == InitClean /\ [][NextClean]_vars

----------------------------------------------------------------------------
Next ==
    \/ \E f \in ItemInputs, c \in CostsFor(Len(items) + 1) :
          CreateBudgetItem(c, f.repeats, f.startdate, f.end_date)
    \/ \E M \in Dates : Create(M)
    \/ \E pk \in InstancePks, M \in Dates : Resave(pk, M)
    \/ \E pk \in InstancePks : CalculateTotal(pk)
    \/ \E pk \in InstancePks : AutoPopulate(pk)
    \/ \E pk \in InstancePks, i \in ItemPks : AddItem(pk, i)
    \/ \E pk \in InstancePks, i \in ItemPks : RemoveItem(pk, i)
    \/ \E obj \in {0} \cup InstancePks, M \in Dates, sel \in SUBSET ItemPks :
          FormSave(obj, M, sel)
    \/ \E obj \in {0} \cup InstancePks, M \in Dates : SaveModel(obj, M)
    \/ \E obj \in {0} \cup InstancePks : OpenForm(obj)

Spec == Init /\ [][Next]_vars

----------------------------------------------------------------------------
\* The paths that write BudgetItem.cost. Model.save and objects.create run no
\* validator (BudgetItem overrides neither save nor clean); the validators of
\* the field run in full_clean only.

\* The costs a caller hands over, in cents.
StoreCosts == {-100, 0, 1, 120000}

\* Decimal of an amount of cents, as Decimal('12.00') is written.
CentsDecimal(c) ==
    [neg |-> c < 0, coeff |-> IF c < 0 THEN -c ELSE c, exp |-> -decimal_places]

\* item = BudgetItem(cost=c, ...); item.full_clean(); item.save()
CleanedCreate(c, r, s, e) ==
    /\ Len(items) < MaxItems
    /\ IF full_clean(CentsDecimal(c)) = "valid"
       THEN /\ items' = Append(items, [cost |-> c, repeats |-> r,
                                       startdate |-> s, end_date |-> e])
            /\ last' = Last("clean_create_item", 0, "", c, EmptyBag, 0)
       ELSE /\ last' = Last("clean_create_item", 0, "ValidationError", c, EmptyBag, 0)
            /\ UNCHANGED items
    /\ UNCHANGED <<instances, cleaning>>

\* item.cost = c; item.save() on a persisted BudgetItem
UpdateCost(pk, c) ==
    /\ pk \in ItemPks
    /\ items' = [items EXCEPT ![pk].cost = c]
    /\ last' = Last("update_item", 0, "", c, EmptyBag, 0)
    /\ UNCHANGED <<instances, cleaning>>

NextStore ==
    \/ \E f \in ItemInputs, c \in StoreCosts :
          CreateBudgetItem(c, f.repeats, f.startdate, f.end_date)
    \/ \E f \in ItemInputs, c \in StoreCosts :
          CleanedCreate(c, f.repeats, f.startdate, f.end_date)
    \/ \E pk \in ItemPks, c \in StoreCosts : UpdateCost(pk, c)

SpecStore == Init /\ [][NextStore]_vars

----------------------------------------------------------------------------
\* MonthlyInstance.save of a new object, one statement at a time. The code is
\* single-threaded: no other call runs between two statements of a save.

\* Faulty variant of save_statements: the total is calculated before the items
\* are assigned.
save_statements_total_first == <<"save.super_save", "save.calculate_total", "save.set">>

\* The statements save runs when is_new, in order: super().save(), then those
\* of auto_populate_repeating_items: budget_items.set(...), calculate_total().
save_statements == <<"save.super_save", "save.set", "save.calculate_total">>

\* The tables after the statement stmt of the save of the object with key pk
\* (not yet a row when super().save() runs) and month M.
Exec(stmt, its, insts, pk, M) ==
    CASE stmt = "save.super_save" -> SuperSave(insts, 0, M)
      [] stmt = "save.set" ->
            [insts EXCEPT ![pk].budget_items = RelatedSet(@, ActiveRepeating(its, M))]
      [] stmt = "save.calculate_total" ->
            [insts EXCEPT ![pk] = calculate_total(its, @)]

\* A save has run last.ret of its statements and has more to run.
InProgress ==
    /\ last.op \in {save_statements[k] : k \in DOMAIN save_statements}
    /\ last.err = ""
    /\ last.ret < Len(save_statements)

RunStatement(k, pk, M) ==
    /\ instances' = Exec(save_statements[k], items, instances, pk, M)
    /\ last' = Last(save_statements[k], pk, "", k, EmptyBag, 0)

\* MonthlyInstance.objects.create(month=M) up to and including super().save()
SaveNew(M) ==
    /\ ~InProgress
    /\ IF UniqueViolation(instances, 0, M)
       THEN /\ last' = Last(save_statements[1], 0, "IntegrityError", 0, EmptyBag, 0)
            /\ UNCHANGED instances
       ELSE /\ Len(instances) < MaxInstances
            /\ RunStatement(1, Len(instances) + 1, M)
    /\ UNCHANGED <<items, cleaning>>

\* The next statement of the save in progress.
SaveStep ==
    /\ InProgress
    /\ RunStatement(last.ret + 1, last.pk, instances[last.pk].month)
    /\ UNCHANGED <<items, cleaning>>

NextSave ==
    \/ \E f \in ItemInputs, c \in CostsFor(Len(items) + 1) :
          ~InProgress /\ CreateBudgetItem(c, f.repeats, f.startdate, f.end_date)
    \/ \E M \in Dates : SaveNew(M)
    \/ SaveStep

SpecSave == Init /\ [][NextSave]_vars

----------------------------------------------------------------------------
\* Properties.

Rows(pk) == instances[pk].budget_items
Referenced(pk) == BagToSet(Rows(pk))
EachOnce(pk) == \A i \in DOMAIN Rows(pk) : Rows(pk)[i] = 1

\* The item i is one the spec calls active for the month M.
Expired(i, M) == items[i].end_date # {} /\ \A d \in items[i].end_date : d < M
Future(i, M) == items[i].startdate > M
IsActive(i, M) == items[i].repeats /\ ~Future(i, M) /\ ~Expired(i, M)
ActiveFor(M) == {i \in ItemPks : IsActive(i, M)}

\* The sum of cost over a set of BudgetItems.
RECURSIVE CostUpTo(_, _)
CostUpTo(n, S) ==
    IF n = 0 THEN 0
    ELSE (IF n \in S THEN items[n].cost ELSE 0) + CostUpTo(n - 1, S)
CostOf(S) == CostUpTo(Len(items), S)

Returned(op) == last.op = op /\ last.err = ""

\* C1: after a MonthlyInstance for month M is created, or after
\* auto_populate_repeating_items on an instance of month M, the instance
\* references exactly the BudgetItems with repeats = true, startdate <= M and
\* end_date absent or >= M, each once; no future, expired or non-repeating item.
C1_ExactlyActive ==
    (Returned("create") \/ Returned("auto_populate")) =>
        LET M == instances[last.pk].month
        IN  /\ \A i \in ItemPks :
                 CopiesIn(i, Rows(last.pk)) = IF IsActive(i, M) THEN 1 ELSE 0
            /\ Referenced(last.pk) \subseteq ItemPks
            /\ \A i \in ItemPks :
                 (~items[i].repeats \/ Future(i, M) \/ Expired(i, M))
                     => ~BagIn(i, Rows(last.pk))

\* A creation that includes an item starting and ending exactly at M and leaves
\* a non-repeating item out.
C1_Witness ==
    /\ Returned("create")
    /\ \E i, j \in ItemPks :
          /\ items[i].repeats
          /\ items[i].startdate = instances[last.pk].month
          /\ items[i].end_date = {instances[last.pk].month}
          /\ BagIn(i, Rows(last.pk))
          /\ ~items[j].repeats
          /\ ~BagIn(j, Rows(last.pk))

\* C2: right after a MonthlyInstance for month M is created its total_amount is
\* the sum of cost over the repeating items active for M, and 0 when there is
\* none.
C2_TotalOnCreation ==
    Returned("create") =>
        LET M == instances[last.pk].month
        IN  /\ instances[last.pk].total_amount = CostOf(ActiveFor(M))
            /\ ActiveFor(M) = {} => instances[last.pk].total_amount = 0

C2_Witness ==
    /\ Returned("create")
    /\ Cardinality(ActiveFor(instances[last.pk].month)) = 2
    /\ instances[last.pk].total_amount = FixtureCosts[1] + FixtureCosts[2]

\* C3: calculate_total returns the sum of cost over the items referenced (0 for
\* none), total_amount then holds the returned value, and the referenced items
\* are the ones referenced before the call.
C3_CalculateTotal ==
    Returned("calculate_total") =>
        /\ last.ret = CostOf(Referenced(last.pk))
        /\ instances[last.pk].total_amount = last.ret
        /\ Rows(last.pk) = last.before
        /\ Referenced(last.pk) = {} => last.ret = 0

\* A call that replaced a stale total of a non-empty set.
C3_Witness ==
    /\ Returned("calculate_total")
    /\ Referenced(last.pk) # {}
    /\ last.old # last.ret
    /\ instances[last.pk].total_amount = last.ret

\* C4: no two MonthlyInstances share a month; a create for a month that has an
\* instance raises the uniqueness error and persists nothing.
UniqueMonths ==
    \A p, q \in InstancePks : p # q => instances[p].month # instances[q].month

MonthTaken(M) == \E p \in InstancePks : instances[p].month = M

C4_UniqueMonth ==
    /\ []UniqueMonths
    /\ [][(last'.op = "create" /\ MonthTaken(last'.ret))
             => (last'.err = "IntegrityError" /\ instances' = instances)]_vars

C4_Witness ==
    /\ last.op = "create"
    /\ last.err = "IntegrityError"
    /\ MonthTaken(last.ret)
    /\ Len(instances) = 1

\* C5: save on a persisted instance leaves its budget_items as they are, also
\* when they differ from what the matcher gives for its month.
C5_ResaveKeepsItems ==
    [][\A pk \in InstancePks :
          (last'.op = "save" /\ last'.pk = pk)
              => instances'[pk].budget_items = instances[pk].budget_items]_vars

\* A save that returned on an instance whose items are not the matcher's.
C5_Witness ==
    /\ Returned("save")
    /\ Rows(last.pk) # SetToBag(ActiveFor(instances[last.pk].month))
    /\ Referenced(last.pk) # {}
    /\ ActiveFor(instances[last.pk].month) # {}

\* C6 as stated: auto_populate_repeating_items on an instance whose
\* budget_items equal the matcher's result leaves budget_items and total_amount
\* as they were.
C6_Original ==
    (Returned("auto_populate")
        /\ last.before = SetToBag(ActiveFor(instances[last.pk].month)))
    => (Rows(last.pk) = last.before
        /\ instances[last.pk].total_amount = last.old)

\* C6 amended: on such an instance the call leaves budget_items as they were,
\* each item referenced once; it leaves total_amount as it was when that was
\* the sum of the items' costs, and sets it to that sum otherwise; a further call
\* changes nothing.
C6_Idempotent ==
    Returned("auto_populate") =>
        /\ last.before = SetToBag(ActiveFor(instances[last.pk].month))
              => /\ Rows(last.pk) = last.before
                 /\ EachOnce(last.pk)
                 /\ instances[last.pk].total_amount = CostOf(Referenced(last.pk))
                 /\ last.old = CostOf(BagToSet(last.before))
                       => instances[last.pk].total_amount = last.old
        /\ auto_populate_repeating_items(items, instances[last.pk]) = instances[last.pk]

\* A repeated call on a populated instance that changed nothing.
C6_Witness ==
    /\ Returned("auto_populate")
    /\ last.before = SetToBag(ActiveFor(instances[last.pk].month))
    /\ Cardinality(Referenced(last.pk)) = 2
    /\ Rows(last.pk) = last.before
    /\ instances[last.pk].total_amount = last.old

\* C7: auto_populate_repeating_items drops every referenced item the matcher
\* does not select, and total_amount no longer includes its cost.
Dropped == {x \in BagToSet(last.before) : ~IsActive(x, instances[last.pk].month)}

C7_Replaces ==
    Returned("auto_populate") =>
        /\ Referenced(last.pk) \cap Dropped = {}
        /\ instances[last.pk].total_amount
              = CostOf(ActiveFor(instances[last.pk].month) \ Dropped)
        /\ instances[last.pk].total_amount = CostOf(Referenced(last.pk))

\* A call that dropped a non-repeating item whose cost the total included.
C7_Witness ==
    /\ Returned("auto_populate")
    /\ \E x \in Dropped : ~items[x].repeats
    /\ last.old = CostOf(BagToSet(last.before))
    /\ Referenced(last.pk) # {}
    /\ instances[last.pk].total_amount < last.old

\* The calls that assign or mutate budget_items of the instance they are made on.
MutatesItems == {"auto_populate", "form_save", "add", "remove"}

Recalculates == {"calculate_total", "auto_populate", "form_save", "save_model"}

\* C9: add and remove leave total_amount as it is; the total_amount of a
\* persisted instance changes only in a call that runs calculate_total on it.
C9_TotalOnlyOnCalculate ==
    [][\A pk \in InstancePks :
          /\ (last'.op \in {"add", "remove"} /\ last'.pk = pk)
                => instances'[pk].total_amount = instances[pk].total_amount
          /\ instances'[pk].total_amount # instances[pk].total_amount
                => (last'.op \in Recalculates /\ last'.pk = pk)]_vars

\* After an add or a remove the stored total differs from the sum of the costs.
C9_Witness ==
    /\ last.op \in {"add", "remove"}
    /\ instances[last.pk].total_amount # CostOf(Referenced(last.pk))
    /\ instances[last.pk].total_amount # 0

\* The value of a cost, read off its sign, coefficient and exponent.
NonPositive(v) == v.neg \/ v.coeff = 0
AtLeastOneCent(v) ==
    ~v.neg /\ v.coeff > 0 /\ (v.exp >= -2 \/ v.coeff >= 10^(-v.exp - 2))
PlacesWritten(v) == IF v.exp < 0 THEN -v.exp ELSE 0
BelowHundredMillion(v) == v.coeff = 0 \/ NumDigits(v.coeff) + v.exp <= 8

Cleaned == cleaning.outcome # "pending"

\* C10 as stated: full_clean fails for every cost <= 0 and succeeds for 0.01
\* and every larger cost.
C10_Original ==
    Cleaned =>
        /\ NonPositive(cleaning.value) => cleaning.outcome = "ValidationError"
        /\ AtLeastOneCent(cleaning.value) => cleaning.outcome = "valid"

\* C10 amended: full_clean fails for every cost <= 0; it succeeds for 0.01 and
\* every larger cost below 100000000 that is written with at most 2 decimal
\* places, and fails for a cost of 100000000 or more or one written with more
\* than 2 decimal places.
C10_CostValidation ==
    Cleaned =>
        /\ NonPositive(cleaning.value) => cleaning.outcome = "ValidationError"
        /\ (/\ AtLeastOneCent(cleaning.value)
            /\ PlacesWritten(cleaning.value) <= 2
            /\ BelowHundredMillion(cleaning.value)) => cleaning.outcome = "valid"
        /\ (PlacesWritten(cleaning.value) > 2 \/ ~BelowHundredMillion(cleaning.value))
              => cleaning.outcome = "ValidationError"

\* full_clean accepted Decimal('0.01').
C10_Witness ==
    /\ cleaning.outcome = "valid"
    /\ cleaning.value = [neg |-> FALSE, coeff |-> 1, exp |-> -2]
    /\ last.op = "full_clean"

\* C11: every persisted BudgetItem has cost > 0; a cost <= 0 is rejected before
\* it is persisted on every path that creates or updates a BudgetItem, direct
\* creation through the store included.
C11_CostPositive == \A pk \in ItemPks : items[pk].cost > 0

\* C12: creation of a MonthlyInstance passes through its states in a fixed
\* order: the record is persisted first, with empty budget_items and
\* total_amount 0; then the matcher's items are assigned; then calculate_total
\* persists the total. The items are never assigned before the record has an
\* identity, and the total is never computed before the items are assigned.
SavedUnpopulated ==
    (last.op = "save.super_save" /\ last.err = "") =>
        /\ last.pk \in InstancePks
        /\ instances[last.pk] = NewRow(instances[last.pk].month)

PopulatedWithTotal ==
    last.op = "save.calculate_total" =>
        /\ Rows(last.pk) = SetToBag(ActiveFor(instances[last.pk].month))
        /\ instances[last.pk].total_amount = CostOf(Referenced(last.pk))
        /\ instances[last.pk]
              = auto_populate_repeating_items(items, NewRow(instances[last.pk].month))

C12_CreationOrder ==
    /\ [](SavedUnpopulated /\ PopulatedWithTotal)
    /\ [][/\ (last'.op = "save.super_save" /\ last'.err = "")
                => (last'.pk \notin InstancePks /\ last.op # "save.set"
                        /\ (last.op = "save.super_save" => last.err # ""))
          /\ last'.op = "save.set"
                => (last.op = "save.super_save" /\ last.err = ""
                        /\ last'.pk = last.pk /\ last.pk \in InstancePks)
          /\ last'.op = "save.calculate_total"
                => (last.op = "save.set" /\ last'.pk = last.pk)
          /\ \A pk \in InstancePks :
                /\ instances'[pk].budget_items # instances[pk].budget_items
                      => (last'.op = "save.set" /\ last'.pk = pk)
                /\ instances'[pk].total_amount # instances[pk].total_amount
                      => (last'.op = "save.calculate_total" /\ last'.pk = pk)]_vars

\* A creation that ran to its end and populated two items.
C12_Witness ==
    /\ last.op = "save.calculate_total"
    /\ last.ret = Len(save_statements)
    /\ Cardinality(Referenced(last.pk)) = 2
    /\ instances[last.pk].total_amount = FixtureCosts[1] + FixtureCosts[2]

\* C13: after MonthlyInstanceAdminForm.save with commit=True the instance's
\* budget_items are exactly the union of the two submitted selections, each
\* item once, the items held before and not selected are removed, and
\* total_amount is the sum of cost over the union; after save_model
\* total_amount is the sum of cost over the instance's budget_items.
Selected == last.fields.repeating_items \cup last.fields.non_repeating_items

C13_AdminSaves ==
    /\ [](/\ Returned("form_save") =>
                /\ Rows(last.pk) = SetToBag(Selected)
                /\ instances[last.pk].total_amount = CostOf(Selected)
          /\ Returned("save_model") =>
                /\ instances[last.pk].total_amount = CostOf(Referenced(last.pk))
                /\ EachOnce(last.pk))
    /\ [][(last'.op = "form_save" /\ last'.pk \in InstancePks) =>
             \A x \in BagToSet(instances[last'.pk].budget_items) :
                 x \notin (last'.fields.repeating_items
                              \cup last'.fields.non_repeating_items)
                     => ~BagIn(x, instances'[last'.pk].budget_items)]_vars

\* A form save with one item in each selection.
C13_Witness ==
    /\ Returned("form_save")
    /\ last.fields.repeating_items # {}
    /\ last.fields.non_repeating_items # {}
    /\ Cardinality(Referenced(last.pk)) = 2
    /\ instances[last.pk].total_amount = FixtureCosts[1] + FixtureCosts[2]

\* C14: when the admin form is opened on a persisted MonthlyInstance, its
\* initial repeating_items are the referenced items with repeats = true and its
\* initial non_repeating_items the referenced items with repeats = false: the
\* two are disjoint and their union is budget_items; an instance holding the
\* matcher's items shows them all under repeating_items and none under
\* non_repeating_items; an added non-repeating item shows under
\* non_repeating_items.
C14_FormInitial ==
    (Returned("form_init") /\ last.pk # 0) =>
        /\ last.fields.repeating_items = {i \in Referenced(last.pk) : items[i].repeats}
        /\ last.fields.non_repeating_items
              = {i \in Referenced(last.pk) : ~items[i].repeats}
        /\ last.fields.repeating_items \cap last.fields.non_repeating_items = {}
        /\ Selected = Referenced(last.pk)
        /\ Rows(last.pk) = SetToBag(ActiveFor(instances[last.pk].month))
              => /\ last.fields.repeating_items = ActiveFor(instances[last.pk].month)
                 /\ last.fields.non_repeating_items = {}
        /\ \A i \in Referenced(last.pk) :
              ~items[i].repeats => i \in last.fields.non_repeating_items

\* The form opened on an instance that holds a populated item and an added
\* non-repeating item.
C14_Witness ==
    /\ Returned("form_init")
    /\ last.pk \in InstancePks
    /\ \E i, j \in Referenced(last.pk) :
          /\ IsActive(i, instances[last.pk].month)
          /\ ~items[j].repeats
          /\ last.fields.repeating_items = {i}
          /\ last.fields.non_repeating_items = {j}

\* C15: a create for a month that has an instance fails with the uniqueness
\* error and changes nothing: the instance of that month keeps its
\* budget_items and total_amount (neither the matcher nor calculate_total is
\* run), the number of MonthlyInstances and all BudgetItems stay as they were.
C15_FailedCreateChangesNothing ==
    [][(last'.op = "create" /\ last'.err = "IntegrityError") =>
          /\ MonthTaken(last'.ret)
          /\ items' = items
          /\ Len(instances') = Len(instances)
          /\ \A pk \in InstancePks :
                /\ instances'[pk].month = instances[pk].month
                /\ instances'[pk].budget_items = instances[pk].budget_items
                /\ instances'[pk].total_amount = instances[pk].total_amount]_vars

\* A failed create for the month of an instance whose items are not the
\* matcher's and whose total is not the sum of its items.
C15_Witness ==
    /\ last.op = "create"
    /\ last.err = "IntegrityError"
    /\ \E pk \in InstancePks :
          /\ instances[pk].month = last.ret
          /\ Rows(pk) # SetToBag(ActiveFor(last.ret))
          /\ instances[pk].total_amount # CostOf(Referenced(pk))

\* C16: a repeating BudgetItem whose end_date is earlier than its startdate is
\* accepted by the store and is never auto-populated: after a creation or
\* auto_populate_repeating_items, for whatever month, it is not among the
\* budget_items and the total holds no cost of it.
Inverted(i) == items[i].repeats /\ \E d \in items[i].end_date : d < items[i].startdate

C16_InvertedNeverPopulated ==
    (Returned("create") \/ Returned("auto_populate")) =>
        \A i \in ItemPks : Inverted(i) =>
            /\ ~BagIn(i, Rows(last.pk))
            /\ instances[last.pk].total_amount = CostOf(Referenced(last.pk) \ {i})
            /\ \A M \in Dates : i \notin ActiveRepeating(items, M)

\* auto_populate_repeating_items dropped such an item, which had been added by
\* hand and counted in the total, from an instance of the month it starts in.
C16_Witness ==
    /\ Returned("auto_populate")
    /\ \E i \in ItemPks :
          /\ Inverted(i)
          /\ items[i].startdate = instances[last.pk].month
          /\ BagIn(i, last.before)
          /\ last.old = CostOf(BagToSet(last.before))
          /\ ~BagIn(i, Rows(last.pk))

====
